---------------------------- MODULE Spec2Model ----------------------------
(***************************************************************************)
(* Model of the diagram generator of StudentTools                          *)
(* (src/mermaid_generator.py): the prompt templates, the quality gate      *)
(* score_prompt, the refiner refine_prompt, the extractor                  *)
(* extract_mermaid_code and the pipeline generate_mermaid_code.            *)
(*                                                                         *)
(* A text is a sequence of one-character strings (the backtick, which a    *)
(* TLA+ string cannot hold, is the string "BT").  A prompt template is a   *)
(* sequence of tokens: the brace characters "{" and "}" one by one, and    *)
(* every brace-free stretch of the template as one atom.                   *)
(***************************************************************************)
EXTENDS Integers, Sequences, FiniteSets, TLC

VARIABLES req,      \* request id -> the frame of one generate_mermaid_code call
          fn,       \* the pure function under study ("none" in the pipeline)
          arg,      \* its arguments
          ret       \* its outcome, <<>> until it has been applied

vars == <<req, fn, arg, ret>>

\* ------------------------------------------------------------------------
\* Optional values
\* ------------------------------------------------------------------------
None == <<>>
Some(x) == <<x>>

\* ------------------------------------------------------------------------
\* Characters and the str methods the program uses
\* ------------------------------------------------------------------------
NL == "\n"
QUOTE == "\""
BT == "BT"

WhiteSpace == {" ", NL, "\t", "\r"}

Digits == {"0", "1", "2", "3", "4", "5", "6", "7", "8", "9"}

DigitVal(c) ==
    CASE c = "0" -> 0 [] c = "1" -> 1 [] c = "2" -> 2 [] c = "3" -> 3
      [] c = "4" -> 4 [] c = "5" -> 5 [] c = "6" -> 6 [] c = "7" -> 7
      [] c = "8" -> 8 [] c = "9" -> 9

RECURSIVE LStripSet(_, _)
LStripSet(s, cs) ==
    IF s = <<>> THEN s
    ELSE IF Head(s) \in cs THEN LStripSet(Tail(s), cs) ELSE s

RECURSIVE RStripSet(_, _)
RStripSet(s, cs) ==
    IF s = <<>> THEN s
    ELSE IF s[Len(s)] \in cs THEN RStripSet(SubSeq(s, 1, Len(s) - 1), cs) ELSE s

\* str.strip()
Strip(s) == RStripSet(LStripSet(s, WhiteSpace), WhiteSpace)

\* str.startswith(p)
StartsWith(s, p) == Len(p) <= Len(s) /\ SubSeq(s, 1, Len(p)) = p

\* p occurs in s at index i
OccursAt(s, p, i) ==
    i >= 1 /\ i + Len(p) - 1 <= Len(s) /\ SubSeq(s, i, i + Len(p) - 1) = p

Contains(s, p) == \E i \in 1..(Len(s) + 1) : OccursAt(s, p, i)

\* ------------------------------------------------------------------------
\* PROMPTS: one template per diagram type.  "{" and "}" are the template's
\* brace characters, every other token is a brace-free stretch of its text.
\* ------------------------------------------------------------------------
\* a template whose only braces are those of its {description} field
PlainTemplate(lead, body, tail) == <<lead, body, "{", "description", "}", tail>>

LeadFlowchart == "Start with 'flowchart TD'."
LeadSequence == "The code must start with 'sequenceDiagram'."
LeadClass == "The code must start with 'classDiagram'."
LeadState == "The code must start with 'stateDiagram-v2'."
LeadER == "The code must start with 'erDiagram'."
LeadJourney == "The code must start with 'journey'."
LeadGantt == "The code must start with 'gantt' and include 'dateFormat YYYY-MM-DD'."
LeadPie == "The code must start with 'pie'."
LeadQuadrant == "The code must start with 'quadrantChart'."
LeadTimeline == "The code must start with 'timeline'."
LeadSankey == "The code must start with 'sankey-beta'."
LeadXY == "The code must start with 'xychart-beta'."
LeadBlock == "The code must start with 'block-beta'."
LeadKanban == "The code must start with 'kanban'."
LeadGitGraph == "The code must start with 'gitGraph'."
LeadMindmap == "The code must start with 'mindmap'. DO NOT use ::icon() syntax."

PromptFlowchart ==
    PlainTemplate(LeadFlowchart, "Valid node shapes: ... Generate a flowchart for: ", NL)

PromptSequence ==
    PlainTemplate(LeadSequence, "Example: ... Now generate a sequence diagram for:", "RULES: ...")

\* the braces of the example class are single
PromptClass ==
    <<LeadClass, "Example: classDiagram class Animal ",
      "{", " +String name +makeSound() ", "}",
      " Animal <|-- Dog Now generate a class diagram for:",
      "{", "description", "}", "RULES: ...">>

PromptState ==
    PlainTemplate(LeadState, "Example: ... Now generate a state diagram for:", "RULES: ...")

\* every brace of the relationship and attribute syntax is doubled
PromptER ==
    <<LeadER,
      "Relationship syntax: - One to one: ||--|| - One to many: ||--o", "{", "{",
      " - Many to one: ", "}", "}", "o--|| - Many to many: ", "}", "}", "o--o", "{", "{",
      " Attributes syntax: ENTITY ", "{", "{", " type attributeName ", "}", "}",
      " Example: erDiagram CUSTOMER ||--o", "{", "{", " ORDER : places ORDER ||--|", "{", "{",
      " LINE-ITEM : contains PRODUCT ||--o", "{", "{", " LINE-ITEM : ordered in CUSTOMER ", "{", "{",
      " int id string name string email ", "}", "}", " ORDER ", "{", "{",
      " int orderID date orderDate ", "}", "}",
      " Now generate an ER diagram for:", "{", "description", "}", "RULES: ...">>

PromptJourney ==
    PlainTemplate(LeadJourney, "Example: ... Now generate a user journey for:", "RULES: ...")

PromptGantt ==
    PlainTemplate(LeadGantt, "Example: ... Now generate a Gantt chart for: ", "CRITICAL RULES: ...")

PromptPie ==
    PlainTemplate(LeadPie, "Example: ... Now generate a pie chart for:", "RULES: ...")

PromptQuadrant ==
    PlainTemplate(LeadQuadrant, "Example: ... Now generate a quadrant chart for:", "RULES: ...")

PromptTimeline ==
    PlainTemplate(LeadTimeline, "Example: ... Now generate a timeline for:", "RULES: ...")

PromptSankey ==
    PlainTemplate(LeadSankey, "Example: ... Now generate a Sankey diagram for:", "RULES: ...")

PromptXY ==
    PlainTemplate(LeadXY, "Example: ... Now generate an XY chart for:", "RULES: ...")

PromptBlock ==
    PlainTemplate(LeadBlock, "Example: ... Now generate a block diagram for:", "RULES: ...")

PromptKanban ==
    PlainTemplate(LeadKanban, "Example: ... Now generate a Kanban board for:", "RULES: ...")

PromptGitGraph ==
    PlainTemplate(LeadGitGraph, "Example: ... Now generate a git graph for:", "RULES: ...")

PromptMindmap ==
    PlainTemplate(LeadMindmap, "Example: ... Now generate a mindmap for:", "RULES: ...")

PROMPTS ==
    ("Flowchart" :> PromptFlowchart) @@ ("Sequence Diagram" :> PromptSequence) @@
    ("Class Diagram" :> PromptClass) @@ ("State Diagram" :> PromptState) @@
    ("ER Diagram" :> PromptER) @@ ("User Journey" :> PromptJourney) @@
    ("Gantt" :> PromptGantt) @@ ("Pie Chart" :> PromptPie) @@
    ("Quadrant Chart" :> PromptQuadrant) @@ ("Timeline" :> PromptTimeline) @@
    ("Sankey" :> PromptSankey) @@ ("XY Chart" :> PromptXY) @@
    ("Block Diagram" :> PromptBlock) @@ ("Kanban" :> PromptKanban) @@
    ("GitGraph" :> PromptGitGraph) @@ ("Mindmap" :> PromptMindmap)

\* ------------------------------------------------------------------------
\* str.format(description = d) on a template: "{{" and "}}" are literal
\* braces, "{name}" is replaced by the keyword argument of that name, and
\* the substituted text is not scanned again.  err = "" is success.
\* ------------------------------------------------------------------------
FormatOk(v) == [err |-> "", val |-> v]
FormatErr(e) == [err |-> e, val |-> <<>>]

\* the least j > i with t[j] = "}", 0 if there is none
ClosingBrace(t, i) ==
    IF \E j \in (i + 1)..Len(t) : t[j] = "}"
    THEN CHOOSE j \in (i + 1)..Len(t) :
            t[j] = "}" /\ \A k \in (i + 1)..(j - 1) : t[k] # "}"
    ELSE 0

\* the replacement field t[i+1 .. j-1] looked up in {description: d}
FormatField(name) ==
    IF name = <<>> THEN "IndexError"
    ELSE IF \E k \in 1..Len(name) : name[k] = "{" THEN "ValueError"
    ELSE IF name = <<"description">> THEN ""
    ELSE "KeyError"

RECURSIVE FormatFrom(_, _, _, _)
FormatFrom(t, i, d, acc) ==
    IF i > Len(t) THEN FormatOk(acc)
    ELSE IF t[i] = "{" THEN
        IF i = Len(t) THEN FormatErr("ValueError")
        ELSE IF t[i + 1] = "{" THEN FormatFrom(t, i + 2, d, Append(acc, "{"))
        ELSE LET j == ClosingBrace(t, i) IN
             IF j = 0 THEN FormatErr("ValueError")
             ELSE LET e == FormatField(SubSeq(t, i + 1, j - 1)) IN
                  IF e # "" THEN FormatErr(e)
                  ELSE FormatFrom(t, j + 1, d, acc \o d)
    ELSE IF t[i] = "}" THEN
        IF i < Len(t) /\ t[i + 1] = "}" THEN FormatFrom(t, i + 2, d, Append(acc, "}"))
        ELSE FormatErr("ValueError")
    ELSE FormatFrom(t, i + 1, d, Append(acc, t[i]))

Format(t, d) == FormatFrom(t, 1, d, <<>>)

\* ------------------------------------------------------------------------
\* The completion service.  One call ends in exactly one outcome: the
\* transport fails (or times out), the status is not 2xx, the body is not
\* JSON, the JSON has no (or an empty) "choices", the first choice has no
\* message content, or the first choice carries the text `content`.
\* ------------------------------------------------------------------------
Failed(kind) == [kind |-> kind, content |-> <<>>]
Reply(text) == [kind |-> "ok", content |-> text]

FailureKinds == {"network_error", "http_status", "bad_json", "no_choices", "no_content"}

\* ------------------------------------------------------------------------
\* score_prompt
\* ------------------------------------------------------------------------
DEFAULT_SCORE == 3

\* re.search(r'\d+', s).group(): the first maximal run of digits, <<>> if
\* s holds no digit
RECURSIVE DigitRun(_)
DigitRun(s) ==
    IF s = <<>> \/ Head(s) \notin Digits THEN <<>>
    ELSE <<Head(s)>> \o DigitRun(Tail(s))

RECURSIVE SearchDigits(_)
SearchDigits(s) ==
    IF s = <<>> THEN <<>>
    ELSE IF Head(s) \in Digits THEN DigitRun(s)
    ELSE SearchDigits(Tail(s))

\* int() of a run of digits
RECURSIVE IntOf(_)
IntOf(ds) ==
    IF ds = <<>> THEN 0
    ELSE 10 * IntOf(SubSeq(ds, 1, Len(ds) - 1)) + DigitVal(ds[Len(ds)])

Min(a, b) == IF a < b THEN a ELSE b
Max(a, b) == IF a > b THEN a ELSE b

\* score_prompt without the clamp to [0, 10]
score_prompt_NoClamp(outcome) ==
    IF outcome.kind # "ok" THEN DEFAULT_SCORE
    ELSE LET match == SearchDigits(Strip(outcome.content))
         IN  IF match # <<>> THEN IntOf(match) ELSE DEFAULT_SCORE

\* the value score_prompt returns when the scoring call ends in `outcome`:
\* every exception of the call and of the field access is caught
score_prompt(outcome) ==
    IF outcome.kind # "ok" THEN DEFAULT_SCORE
    ELSE LET score_text == Strip(outcome.content)
             match == SearchDigits(score_text)
         IN  IF match # <<>> THEN Max(0, Min(10, IntOf(match)))
             ELSE DEFAULT_SCORE

\* ------------------------------------------------------------------------
\* refine_prompt
\* ------------------------------------------------------------------------
\* re.sub(r'^["\s]+|["\s]+$', '', s): the leading and the trailing run of
\* quotes and whitespace are removed
SubQuotesAndSpace(s) ==
    RStripSet(LStripSet(s, WhiteSpace \cup {QUOTE}), WhiteSpace \cup {QUOTE})

\* the value refine_prompt returns when the refinement call ends in `outcome`
refine_prompt(outcome, user_input) ==
    IF outcome.kind # "ok" THEN user_input
    ELSE SubQuotesAndSpace(Strip(outcome.content))

\* ------------------------------------------------------------------------
\* extract_mermaid_code
\* ------------------------------------------------------------------------
Fence == <<BT, BT, BT>>
Mermaid == <<"m", "e", "r", "m", "a", "i", "d">>

RECURSIVE Split(_, _)
Split(s, sep) ==
    IF \A i \in 1..Len(s) : s[i] # sep THEN <<s>>
    ELSE LET i == CHOOSE k \in 1..Len(s) :
                     s[k] = sep /\ \A m \in 1..(k - 1) : s[m] # sep
         IN  <<SubSeq(s, 1, i - 1)>> \o Split(SubSeq(s, i + 1, Len(s)), sep)

RECURSIVE Join(_, _)
Join(lines, sep) ==
    IF lines = <<>> THEN <<>>
    ELSE IF Len(lines) = 1 THEN lines[1]
    ELSE lines[1] \o <<sep>> \o Join(Tail(lines), sep)

\* the length of the opening ```(?:mermaid)?\n matched at index i, 0 if none
OpeningAt(s, i) ==
    IF OccursAt(s, Fence \o Mermaid \o <<NL>>, i) THEN Len(Fence) + Len(Mermaid) + 1
    ELSE IF OccursAt(s, Fence \o <<NL>>, i) THEN Len(Fence) + 1
    ELSE 0

\* the least j >= from where a ``` begins, 0 if there is none
NextFence(s, from) ==
    IF \E j \in from..Len(s) : OccursAt(s, Fence, j)
    THEN CHOOSE j \in from..Len(s) :
            OccursAt(s, Fence, j) /\ \A k \in from..(j - 1) : ~OccursAt(s, Fence, k)
    ELSE 0

\* re.search(r"```(?:mermaid)?\n(.*?)```", s, re.DOTALL) tried from index i
\* on: Some(group 1) of the leftmost match, None without a match
SearchFence(s, i) ==
    LET closing(k) == NextFence(s, k + OpeningAt(s, k))
        hits == {k \in i..Len(s) : OpeningAt(s, k) # 0 /\ closing(k) # 0}
    IN  IF hits = {} THEN None
        ELSE LET k == CHOOSE x \in hits : \A y \in hits : x <= y
             IN  Some(SubSeq(s, k + OpeningAt(s, k), closing(k) - 1))

valid_starts ==
    { <<"f", "l", "o", "w", "c", "h", "a", "r", "t">>,
      <<"g", "r", "a", "p", "h">>,
      <<"s", "e", "q", "u", "e", "n", "c", "e", "D", "i", "a", "g", "r", "a", "m">>,
      <<"c", "l", "a", "s", "s", "D", "i", "a", "g", "r", "a", "m">>,
      <<"s", "t", "a", "t", "e", "D", "i", "a", "g", "r", "a", "m">>,
      <<"e", "r", "D", "i", "a", "g", "r", "a", "m">>,
      <<"j", "o", "u", "r", "n", "e", "y">>,
      <<"g", "a", "n", "t", "t">>,
      <<"p", "i", "e">>,
      <<"q", "u", "a", "d", "r", "a", "n", "t", "C", "h", "a", "r", "t">>,
      <<"m", "i", "n", "d", "m", "a", "p">>,
      <<"t", "i", "m", "e", "l", "i", "n", "e">>,
      <<"g", "i", "t", "G", "r", "a", "p", "h">>,
      <<"s", "a", "n", "k", "e", "y", "-", "b", "e", "t", "a">>,
      <<"x", "y", "c", "h", "a", "r", "t", "-", "b", "e", "t", "a">>,
      <<"b", "l", "o", "c", "k", "-", "b", "e", "t", "a">>,
      <<"k", "a", "n", "b", "a", "n">> }

StartsWithAny(s, prefixes) == \E p \in prefixes : StartsWith(s, p)

EXCERPT_LEN == 200

\* repr() of a str: quoted with ' (with " when the text holds a ' and no "),
\* the quote character, the backslash and the control characters escaped
ReprQuote(s) ==
    IF (\E i \in 1..Len(s) : s[i] = "'") /\ (\A i \in 1..Len(s) : s[i] # QUOTE)
    THEN QUOTE ELSE "'"

ReprChar(c, q) ==
    CASE c = NL -> <<"\\", "n">>
      [] c = "\t" -> <<"\\", "t">>
      [] c = "\r" -> <<"\\", "r">>
      [] c = "\\" -> <<"\\", "\\">>
      [] c = q -> <<"\\", q>>
      [] OTHER -> <<c>>

RECURSIVE ReprBody(_, _)
ReprBody(s, q) ==
    IF s = <<>> THEN <<>>
    ELSE IF Len(s) = 1 THEN ReprChar(s[1], q)
    ELSE LET h == Len(s) \div 2
         IN  ReprBody(SubSeq(s, 1, h), q) \o ReprBody(SubSeq(s, h + 1, Len(s)), q)

Repr(s) == <<ReprQuote(s)>> \o ReprBody(s, ReprQuote(s)) \o <<ReprQuote(s)>>

\* the outcome of the extractor: the payload, or the ValueError whose message
\* ends with val, the repr of the excerpt
ExtractOk(v) == [err |-> "", val |-> v]
ExtractErr(excerpt) == [err |-> "ValueError", val |-> Repr(excerpt)]

\* KeywordScan testing line.startswith(...) on the untrimmed line
KeywordScan_NoLineStrip(text) ==
    LET lines == Split(text, NL)
        hit(i) == StartsWithAny(lines[i], valid_starts)
    IN  IF \E i \in 1..Len(lines) : hit(i)
        THEN LET i == CHOOSE k \in 1..Len(lines) :
                          hit(k) /\ \A m \in 1..(k - 1) : ~hit(m)
             IN  ExtractOk(Strip(Join(SubSeq(lines, i, Len(lines)), NL)))
        ELSE ExtractErr(SubSeq(text, 1, Min(EXCERPT_LEN, Len(text))))

\* KeywordScan reporting the whole text instead of text[:200]
KeywordScan_WholeText(text) ==
    LET lines == Split(text, NL)
        hit(i) == StartsWithAny(Strip(lines[i]), valid_starts)
    IN  IF \E i \in 1..Len(lines) : hit(i)
        THEN LET i == CHOOSE k \in 1..Len(lines) :
                          hit(k) /\ \A m \in 1..(k - 1) : ~hit(m)
             IN  ExtractOk(Strip(Join(SubSeq(lines, i, Len(lines)), NL)))
        ELSE ExtractErr(text)

\* the keyword rule: the lines from the first one that starts with a
\* diagram keyword, or the error with text[:200]
KeywordScan(text) ==
    LET lines == Split(text, NL)
        hit(i) == StartsWithAny(Strip(lines[i]), valid_starts)
    IN  IF \E i \in 1..Len(lines) : hit(i)
        THEN LET i == CHOOSE k \in 1..Len(lines) :
                          hit(k) /\ \A m \in 1..(k - 1) : ~hit(m)
             IN  ExtractOk(Strip(Join(SubSeq(lines, i, Len(lines)), NL)))
        ELSE ExtractErr(SubSeq(text, 1, Min(EXCERPT_LEN, Len(text))))

\* extract_mermaid_code trying the keyword rule before the fenced block
extract_mermaid_code_KeywordFirst(raw) ==
    LET text == Strip(raw)
        match == SearchFence(text, 1)
        byKeyword == KeywordScan(text)
    IN  IF byKeyword.err = "" THEN byKeyword
        ELSE IF match # None THEN ExtractOk(Strip(match[1]))
        ELSE byKeyword

extract_mermaid_code(raw) ==
    LET text == Strip(raw)
        match == SearchFence(text, 1)
    IN  IF match # None THEN ExtractOk(Strip(match[1]))
        ELSE KeywordScan(text)

\* ------------------------------------------------------------------------
\* sanitize_mermaid_code
\* ------------------------------------------------------------------------
UpperLetters ==
    <<"A", "B", "C", "D", "E", "F", "G", "H", "I", "J", "K", "L", "M", "N", "O", "P", "Q", "R", "S", "T", "U", "V", "W", "X", "Y", "Z">>
LowerLetters ==
    <<"a", "b", "c", "d", "e", "f", "g", "h", "i", "j", "k", "l", "m", "n", "o", "p", "q", "r", "s", "t", "u", "v", "w", "x", "y", "z">>

Range(f) == {f[i] : i \in DOMAIN f}

\* str.lower()
LowerChar(c) ==
    IF c \in Range(UpperLetters)
    THEN LowerLetters[CHOOSE i \in 1..Len(UpperLetters) : UpperLetters[i] = c]
    ELSE c
Lower(s) == [i \in 1..Len(s) |-> LowerChar(s[i])]

\* [a-zA-Z0-9_]
WordChars == Range(UpperLetters) \cup Range(LowerLetters) \cup Digits \cup {"_"}

\* the length of the run of characters of cs (not of cs) that starts at s[i]
RECURSIVE RunLen(_, _, _)
RunLen(s, i, cs) ==
    IF i > Len(s) \/ s[i] \notin cs THEN 0 ELSE 1 + RunLen(s, i + 1, cs)

RECURSIVE RunLenNot(_, _, _)
RunLenNot(s, i, cs) ==
    IF i > Len(s) \/ s[i] \in cs THEN 0 ELSE 1 + RunLenNot(s, i + 1, cs)

\* re.sub(r"```(?:mermaid)?", "", s): the text up to the leftmost marker,
\* then the same on what follows the marker
RECURSIVE SubFences(_)
SubFences(s) ==
    LET at == {k \in 1..Len(s) : OccursAt(s, Fence, k)} IN
    IF at = {} THEN s
    ELSE LET i == CHOOSE x \in at : \A y \in at : x <= y
             n == IF OccursAt(s, Fence \o Mermaid, i)
                  THEN Len(Fence) + Len(Mermaid) ELSE Len(Fence)
         IN  SubSeq(s, 1, i - 1) \o SubFences(SubSeq(s, i + n, Len(s)))

\* (?<!\{)\{([^{}]+)\}(?!\}) matches at index i of s
SingleBraceAt(s, i) ==
    LET n == RunLenNot(s, i + 1, {"{", "}"}) IN
    /\ s[i] = "{"
    /\ (i = 1 \/ s[i - 1] # "{")
    /\ n >= 1
    /\ i + n + 1 <= Len(s) /\ s[i + n + 1] = "}"
    /\ (i + n + 2 > Len(s) \/ s[i + n + 2] # "}")

\* re.sub(r'(?<!\{)\{([^{}]+)\}(?!\})', r'{{\1}}', s) from index i on: the
\* text up to the leftmost match, the match doubled, then the same after it
RECURSIVE SubSingleBraces(_, _)
SubSingleBraces(s, i) ==
    LET at == {k \in i..Len(s) : SingleBraceAt(s, k)} IN
    IF at = {} THEN SubSeq(s, i, Len(s))
    ELSE LET j == CHOOSE x \in at : \A y \in at : x <= y
             n == RunLenNot(s, j + 1, {"{", "}"})
         IN  SubSeq(s, i, j - 1) \o <<"{", "{">> \o SubSeq(s, j + 1, j + n) \o <<"}", "}">>
             \o SubSingleBraces(s, j + n + 2)

\* the indices of label at which a character of cs stands, in order
Positions(label, cs) == SelectSeq([k \in 1..Len(label) |-> k], LAMBDA k : label[k] \in cs)

\* label without the characters at the indices in drop
Without(label, drop) ==
    LET idx == SelectSeq([k \in 1..Len(label) |-> k], LAMBDA k : k \notin drop)
    IN  [k \in 1..Len(idx) |-> label[idx[k]]]

\* \{\{([^}]*)"([^"}]*)"([^}]*)\}\} on the label of a double-braced node: the
\* first group is greedy, so the pair removed is the last two quotes
DropQuotePair(label) ==
    LET q == Positions(label, {QUOTE})
    IN  IF Len(q) >= 2 THEN Some(Without(label, {q[Len(q) - 1], q[Len(q)]})) ELSE None

\* \{\{([^}]*)[?!]([^}]*)\}\}: the last '?' or '!' of the label is removed
DropPunct(label) ==
    LET q == Positions(label, {"?", "!"})
    IN  IF Len(q) >= 1 THEN Some(Without(label, {q[Len(q)]})) ELSE None

FixLabel(pattern, label) ==
    IF pattern = "quotes" THEN DropQuotePair(label) ELSE DropPunct(label)

\* \{\{ label \}\} matches at index i of s, where the label is the run of
\* non-'}' characters after "{{": Some(new label) when the pattern matches
\* the label, None otherwise
DoubleBraceAt(s, i, Fix) ==
    LET e == i + 2 + RunLenNot(s, i + 2, {"}"}) IN
    IF OccursAt(s, <<"{", "{">>, i) /\ OccursAt(s, <<"}", "}">>, e)
    THEN FixLabel(Fix, SubSeq(s, i + 2, e - 1)) ELSE None

\* re.sub(r'\{\{ label \}\}', ...) from index i on: the text up to the
\* leftmost match, the match with its new label, then the same after it
RECURSIVE SubDoubleBraces(_, _, _)
SubDoubleBraces(s, i, Fix) ==
    LET at == {k \in i..Len(s) : DoubleBraceAt(s, k, Fix) # None} IN
    IF at = {} THEN SubSeq(s, i, Len(s))
    ELSE LET j == CHOOSE x \in at : \A y \in at : x <= y
             e == j + 2 + RunLenNot(s, j + 2, {"}"})
         IN  SubSeq(s, i, j - 1) \o <<"{", "{">> \o DoubleBraceAt(s, j, Fix)[1] \o <<"}", "}">>
             \o SubDoubleBraces(s, e + 2, Fix)

SanitizeFlowchart(code) ==
    LET c1 == SubSingleBraces(code, 1)
        c2 == SubDoubleBraces(c1, 1, "quotes")
    IN  SubDoubleBraces(c2, 1, "punct")

\* str(n) of a positive integer
RECURSIVE IntToStr(_)
IntToStr(n) ==
    LET d == CHOOSE c \in Digits : DigitVal(c) = n % 10
    IN  IF n < 10 THEN <<d>> ELSE IntToStr(n \div 10) \o <<d>>

\* re.search(r':[a-zA-Z0-9_]+,', line)
HasTaskId(line) ==
    \E i \in 1..Len(line) :
        /\ line[i] = ":"
        /\ LET n == RunLen(line, i + 1, WordChars)
           IN  n >= 1 /\ i + n + 1 <= Len(line) /\ line[i + n + 1] = ","

GanttWords == { <<"a", "f", "t", "e", "r">>, <<"d", "e", "s">>, <<"a", "c", "t", "i", "v", "e">> }

\* the length of ((?:after|des|active)\s+[^,]+|[\d-]+) matched at index j of
\* line, 0 if it does not match there
GanttTokenLen(line, j) ==
    LET ws == {w \in GanttWords : OccursAt(line, w, j)}
    IN  IF ws # {}
        THEN LET w == CHOOSE x \in ws : TRUE
                 m == RunLenNot(line, j + Len(w), {","})
             IN  IF m >= 2 /\ line[j + Len(w)] \in WhiteSpace THEN Len(w) + m ELSE 0
        ELSE RunLen(line, j, Digits \cup {"-"})

\* re.sub(r':(\s*)((?:after|des|active)\s+[^,]+|[\d-]+)', ':task<n>, \2', line)
\* from index i on
RECURSIVE SubTaskId(_, _, _)
SubTaskId(line, i, n) ==
    IF i > Len(line) THEN <<>>
    ELSE LET sp == RunLen(line, i + 1, WhiteSpace)
             j == i + 1 + sp
             k == IF line[i] = ":" THEN GanttTokenLen(line, j) ELSE 0
         IN  IF k > 0
             THEN <<":", "t", "a", "s", "k">> \o IntToStr(n) \o <<",", " ">>
                  \o SubSeq(line, j, j + k - 1) \o SubTaskId(line, j + k, n)
             ELSE <<line[i]>> \o SubTaskId(line, i + 1, n)

NeedsTaskId(line) ==
    /\ \E i \in 1..Len(line) : line[i] = ":"
    /\ ~Contains(Lower(line), <<"s", "e", "c", "t", "i", "o", "n">>)
    /\ ~HasTaskId(line)

\* the loop over the lines of a Gantt payload with its task_counter
RECURSIVE FixGanttLines(_, _)
FixGanttLines(lines, task_counter) ==
    IF lines = <<>> THEN <<>>
    ELSE IF NeedsTaskId(Head(lines))
         THEN <<SubTaskId(Head(lines), 1, task_counter)>>
              \o FixGanttLines(Tail(lines), task_counter + 1)
         ELSE <<Head(lines)>> \o FixGanttLines(Tail(lines), task_counter)

SanitizeGantt(code) == Join(FixGanttLines(Split(code, NL), 1), NL)

ProseMarkers ==
    { <<"n", "o", "t", "e", ":">>,
      <<"e", "x", "p", "l", "a", "n", "a", "t", "i", "o", "n", ":">>,
      <<"t", "h", "i", "s", " ", "d", "i", "a", "g", "r", "a", "m">>,
      <<"t", "h", "e", " ", "a", "b", "o", "v", "e">> }

\* clean_lines leaving out the prose lines only and keeping what follows
RECURSIVE clean_lines_SkipProse(_)
clean_lines_SkipProse(lines) ==
    IF lines = <<>> THEN <<>>
    ELSE IF StartsWithAny(Lower(Strip(Head(lines))), ProseMarkers)
         THEN clean_lines_SkipProse(Tail(lines))
    ELSE <<Head(lines)>> \o clean_lines_SkipProse(Tail(lines))

\* the lines kept by the final loop: those before the first prose line
RECURSIVE clean_lines(_)
clean_lines(lines) ==
    IF lines = <<>> THEN <<>>
    ELSE IF StartsWithAny(Lower(Strip(Head(lines))), ProseMarkers) THEN <<>>
    ELSE <<Head(lines)>> \o clean_lines(Tail(lines))

\* sanitize_mermaid_code applying the Flowchart and the Gantt repairs to
\* every diagram type
sanitize_mermaid_code_AllRepairs(code, diagram_type) ==
    LET c0 == Strip(SubFences(code))
        c1 == SanitizeFlowchart(c0)
        c2 == SanitizeGantt(c1)
    IN  Strip(Join(clean_lines(Split(c2, NL)), NL))

sanitize_mermaid_code(code, diagram_type) ==
    LET c0 == Strip(SubFences(code))
        c1 == IF diagram_type = "Flowchart" THEN SanitizeFlowchart(c0) ELSE c0
        c2 == IF diagram_type = "Gantt" THEN SanitizeGantt(c1) ELSE c1
    IN  Strip(Join(clean_lines(Split(c2, NL)), NL))

\* ------------------------------------------------------------------------
\* generate_mermaid_code: the frame of one request.  The function runs
\* without interruption between two awaits of a completion call, so a step
\* of the model is the code from one await to the next.
\* ------------------------------------------------------------------------
SCORE_THRESHOLD == 6

NewRequest(k, dt, d) ==
    [ api_key |-> k, diagram_type |-> dt, description |-> d,
      pc |-> "start",
      user_input |-> None, score |-> None, refined |-> None,
      final_description |-> None, prompt |-> None,
      ai_response |-> None, mermaid_code |-> None,
      calls |-> <<>>,      \* the completion calls issued so far, in order
      pending |-> <<>>,    \* the calls issued and not yet answered
      response |-> None,   \* how the last answered call ended
      ran |-> <<>>,        \* the helpers run on the reply, in order
      error |-> None, result |-> None ]

Raise(q, type, msg) ==
    [q EXCEPT !.pc = "error", !.error = Some([type |-> type, msg |-> msg])]

\* client.post(...) of the given stage is issued and awaited
Post(q, stage) ==
    [q EXCEPT !.pc = stage,
              !.calls = Append(@, stage),
              !.pending = Append(@, stage)]

\* the awaited call has ended in `outcome`
Answered(q, outcome) == [q EXCEPT !.pending = Tail(@), !.response = Some(outcome)]

\* STEP 3 up to the await of the generation call: the template lookup, the
\* substitution of the description and the POST
BuildAndPost(q) ==
    IF q.diagram_type \notin DOMAIN PROMPTS
    THEN Raise(q, "ValueError", <<"Unsupported diagram type: ", q.diagram_type>>)
    ELSE LET f == Format(PROMPTS[q.diagram_type], q.final_description[1]) IN
         IF f.err # "" THEN Raise(q, f.err, <<"format">>)
         ELSE Post([q EXCEPT !.prompt = Some(f.val)], "generating")

\* Start without the credential check
Start_NoKeyCheck(r) ==
    /\ req[r].pc = "start"
    /\ req' = [req EXCEPT ![r] =
         Post([req[r] EXCEPT !.user_input = Some(Strip(req[r].description))], "scoring")]
    /\ UNCHANGED <<fn, arg, ret>>

\* entry: the credential check, the trimming of the description and the
\* POST of the scoring call
Start(r) ==
    /\ req[r].pc = "start"
    /\ req' = [req EXCEPT ![r] =
         LET q == req[r] IN
         IF q.api_key = ""
         THEN Raise(q, "ValueError", <<"User did not provide an API Key.">>)
         ELSE Post([q EXCEPT !.user_input = Some(Strip(q.description))], "scoring")]
    /\ UNCHANGED <<fn, arg, ret>>

\* ScoreResponse refining also at the threshold (score <= 6)
ScoreResponse_AtThreshold(r, outcome) ==
    /\ req[r].pc = "scoring"
    /\ req' = [req EXCEPT ![r] =
         LET q == [Answered(req[r], outcome) EXCEPT !.score = Some(score_prompt(outcome))] IN
         IF q.score[1] <= SCORE_THRESHOLD
         THEN Post(q, "refining")
         ELSE BuildAndPost([q EXCEPT !.final_description = q.user_input])]
    /\ UNCHANGED <<fn, arg, ret>>

\* the scoring call ends: score_prompt returns, then either the refinement
\* call is posted or the original description goes on to STEP 3
ScoreResponse(r, outcome) ==
    /\ req[r].pc = "scoring"
    /\ req' = [req EXCEPT ![r] =
         LET q == [Answered(req[r], outcome) EXCEPT !.score = Some(score_prompt(outcome))] IN
         IF q.score[1] < SCORE_THRESHOLD
         THEN Post(q, "refining")
         ELSE BuildAndPost([q EXCEPT !.final_description = q.user_input])]
    /\ UNCHANGED <<fn, arg, ret>>

\* the refinement call ends: refine_prompt returns and STEP 3 follows
RefineResponse(r, outcome) ==
    /\ req[r].pc = "refining"
    /\ req' = [req EXCEPT ![r] =
         LET v == refine_prompt(outcome, req[r].user_input[1])
             q == [Answered(req[r], outcome) EXCEPT !.refined = Some(v), !.final_description = Some(v)]
         IN  BuildAndPost(q)]
    /\ UNCHANGED <<fn, arg, ret>>

\* HandleReply without the check for an empty reply
HandleReply_NoEmptyCheck(q, outcome) ==
    IF outcome.kind = "no_choices"
    THEN Raise(q, "ConnectionError",
               <<"AI returned invalid Mermaid code: ", "API returned no choices">>)
    ELSE LET ai_response == Strip(outcome.content)
             x == extract_mermaid_code(ai_response)
             q2 == [q EXCEPT !.ai_response = Some(ai_response), !.ran = Append(@, "extract")]
         IN  IF x.err # ""
             THEN Raise(q2, "ConnectionError",
                        <<"AI returned invalid Mermaid code: ",
                          "Could not find valid Mermaid diagram. Got: ">> \o x.val)
             ELSE LET code == sanitize_mermaid_code(x.val, q.diagram_type) IN
                  [q2 EXCEPT !.pc = "done",
                             !.ran = Append(@, "sanitize"),
                             !.mermaid_code = Some(code),
                             !.result = Some(code)]

\* the reply of the generation call, from response.json() to the return
HandleReply(q, outcome) ==
    IF outcome.kind = "no_choices"
    THEN Raise(q, "ConnectionError",
               <<"AI returned invalid Mermaid code: ", "API returned no choices">>)
    ELSE LET ai_response == Strip(outcome.content)
             q1 == [q EXCEPT !.ai_response = Some(ai_response)]
         IN  IF ai_response = <<>>
             THEN Raise(q1, "ConnectionError",
                        <<"AI returned invalid Mermaid code: ", "Empty response from AI model.">>)
             ELSE LET x == extract_mermaid_code(ai_response)
                      q2 == [q1 EXCEPT !.ran = Append(@, "extract")]
                  IN  IF x.err # ""
                      THEN Raise(q2, "ConnectionError",
                                 <<"AI returned invalid Mermaid code: ",
                                   "Could not find valid Mermaid diagram. Got: ">> \o x.val)
                      ELSE LET code == sanitize_mermaid_code(x.val, q.diagram_type) IN
                           [q2 EXCEPT !.pc = "done",
                                      !.ran = Append(@, "sanitize"),
                                      !.mermaid_code = Some(code),
                                      !.result = Some(code)]

\* GenerateResponse posting the generation call again when the transport fails
GenerateResponse_Retry(r, outcome) ==
    /\ req[r].pc = "generating"
    /\ req' = [req EXCEPT ![r] =
         IF outcome.kind \in {"network_error", "http_status", "bad_json"}
         THEN IF Len(req[r].calls) < 4
              THEN Post(Answered(req[r], outcome), "generating")
              ELSE Raise(Answered(req[r], outcome), "ConnectionError",
                         <<"AI API failed: ", outcome.kind>>)
         ELSE HandleReply(Answered(req[r], outcome), outcome)]
    /\ UNCHANGED <<fn, arg, ret>>

\* GenerateResponse with a task counter that goes on from the Gantt requests
\* already done instead of restarting at 1
GenerateResponse_SharedCounter(r, outcome) ==
    /\ req[r].pc = "generating"
    /\ req' = [req EXCEPT ![r] =
         IF outcome.kind \in {"network_error", "http_status", "bad_json"}
         THEN Raise(Answered(req[r], outcome), "ConnectionError", <<"AI API failed: ", outcome.kind>>)
         ELSE LET q == HandleReply(Answered(req[r], outcome), outcome)
                  done == {x \in DOMAIN req \ {r} :
                              req[x].pc = "done" /\ req[x].diagram_type = "Gantt"}
                  code == Join(FixGanttLines(Split(extract_mermaid_code(q.ai_response[1]).val, NL),
                                             1 + Cardinality(done)), NL)
              IN  IF q.pc = "done" /\ q.diagram_type = "Gantt"
                  THEN [q EXCEPT !.mermaid_code = Some(code), !.result = Some(code)]
                  ELSE q]
    /\ UNCHANGED <<fn, arg, ret>>

\* the generation call ends
GenerateResponse(r, outcome) ==
    /\ req[r].pc = "generating"
    /\ req' = [req EXCEPT ![r] =
         IF outcome.kind \in {"network_error", "http_status", "bad_json"}
         THEN Raise(Answered(req[r], outcome), "ConnectionError", <<"AI API failed: ", outcome.kind>>)
         ELSE HandleReply(Answered(req[r], outcome), outcome)]
    /\ UNCHANGED <<fn, arg, ret>>

\* ------------------------------------------------------------------------
\* The requests and the replies of the completion service that are explored
\* ------------------------------------------------------------------------
Keys == {"", "k1"}

DiagramTypes == DOMAIN PROMPTS \cup {"Venn Diagram"}

Descriptions ==
    { <<>>,
      <<" ", "w", "a", "t", "e", "r", " ", "c", "y", "c", "l", "e", " ">>,
      <<"s", "e", "t", " ", "{", "a", ",", " ", "b", "}">> }

Failures == {Failed(k) : k \in FailureKinds}

ScoreReplies ==
    { <<>>, <<"7">>, <<" ", "6", "\n">>, <<"5">>, <<"S", "c", "o", "r", "e", ":", " ", "4", "/", "1", "0">>, <<"1", "2">>, <<"-", "1">>, <<"v", "a", "g", "u", "e">> }

RefineReplies ==
    { <<>>, <<"\"", "\"">>, <<" ", "\"", "\n", " ">>,
      <<"\"", "E", "x", "p", "l", "a", "i", "n", " ", "t", "h", "e", " ", "{", "w", "a", "t", "e", "r", "}", " ", "c", "y", "c", "l", "e", "\"">>,
      <<"s", "t", "a", "g", "e", "s", "\n", "o", "f", " ", "w", "a", "t", "e", "r">> }

\* a reply of prose longer than the excerpt of the extraction error
ProseLen == 230

LongProse ==
    [i \in 1..ProseLen |-> IF i % 7 = 0 THEN " " ELSE IF i % 11 = 0 THEN "'" ELSE "x"]

GenerateReplies ==
    { <<>>, <<" ", "\n">>, LongProse,
      <<"BT", "BT", "BT", "p", "y", "\n", "x", "BT", "BT", "BT">>,
      <<"BT", "BT", "BT", "m", "e", "r", "m", "a", "i", "d", "\n", "p", "i", "e", " ", "s", "h", "o", "w", "D", "a", "t", "a", "\n", " ", "\"", "A", "p", "p", "l", "e", "s", "\"", " ", ":", " ", "4", "0", "\n", "BT", "BT", "BT">>,
      <<"S", "u", "r", "e", "!", "\n", "f", "l", "o", "w", "c", "h", "a", "r", "t", " ", "T", "D", "\n", " ", "A", "{", "o", "k", "?", "}", " ", "-", "-", ">", " ", "B">>,
      <<"g", "a", "n", "t", "t", "\n", " ", "T", "a", "s", "k", " ", "A", " ", ":", "2", "0", "2", "5", "-", "1", "0", "-", "0", "1", ",", " ", "5", "d", "\n", "N", "o", "t", "e", ":", " ", "d", "o", "n", "e">>,
      <<"D", "e", "c", "i", "s", "i", "o", "n">> }

ScoreOutcomes == Failures \cup {Reply(t) : t \in ScoreReplies}
RefineOutcomes == Failures \cup {Reply(t) : t \in RefineReplies}
GenerateOutcomes == Failures \cup {Reply(t) : t \in GenerateReplies}

RequestIds == {1}

Init ==
    /\ req \in [RequestIds -> {NewRequest(k, dt, d) :
                                 k \in Keys, dt \in DiagramTypes, d \in Descriptions}]
    /\ fn = "none" /\ arg = <<>> /\ ret = <<>>

Scoring == \E r \in DOMAIN req, o \in ScoreOutcomes : ScoreResponse(r, o)
Refining == \E r \in DOMAIN req, o \in RefineOutcomes : RefineResponse(r, o)
Generating == \E r \in DOMAIN req, o \in GenerateOutcomes : GenerateResponse(r, o)
Starting == \E r \in DOMAIN req : Start(r)

Next == Starting \/ Scoring \/ Refining \/ Generating

Spec == Init /\ [][Next]_vars

\* every awaited call ends (each carries a timeout) and the code between two
\* awaits runs to the next one
FairSpec == Spec /\ WF_vars(Next)

\* ------------------------------------------------------------------------
\* Claims about generate_mermaid_code
\* ------------------------------------------------------------------------
Ended(q) == q.pc \in {"done", "error"}

Count(seq, x) == Cardinality({i \in DOMAIN seq : seq[i] = x})

\* C1: a request with an empty api_key makes no completion call, and once it
\* has taken its first step it has failed with a ValueError.
C1_EmptyKeyFailsBeforeAnyCall ==
    \A r \in DOMAIN req :
        req[r].api_key = "" =>
            /\ req[r].calls = <<>>
            /\ req[r].pc # "start" =>
                   req[r].pc = "error" /\ req[r].error[1].type = "ValueError"

C1_Witness ==
    \E r \in DOMAIN req :
        req[r].api_key = "" /\ req[r].pc = "error" /\ req[r].calls = <<>>

\* C2: a request with a credential and a diagram_type that is no key of
\* PROMPTS makes no completion call at all and ends in the "unsupported
\* diagram type" ValueError.
C2_UnsupportedTypeBeforeAnyCall ==
    \A r \in DOMAIN req :
        (req[r].api_key # "" /\ req[r].diagram_type \notin DOMAIN PROMPTS) =>
            /\ req[r].calls = <<>>
            /\ req[r].pc # "start" =>
                   req[r].pc = "error" /\ req[r].error[1].type = "ValueError"

\* the text that stands in a prompt where the template t has its
\* {description} field: what lies between the token before the field and the
\* single token after it
DescriptionIn(prompt, t) ==
    LET i == CHOOSE k \in 1..Len(t) : t[k] = "description"
        p == CHOOSE k \in 1..Len(prompt) : prompt[k] = t[i - 2]
    IN  SubSeq(prompt, p + 1, Len(prompt) - (Len(t) - (i + 1)))

\* C6: the refinement call is issued exactly when the score is below 6; a
\* prompt built after a score of 6 or more holds the trimmed description of
\* the user and no refinement has run, a prompt built after a lower score
\* holds the value refine_prompt returned.
C6_RefineIffScoreBelowSix ==
    \A r \in DOMAIN req :
        LET q == req[r] IN
        /\ Count(q.calls, "refining") <= 1
        /\ q.score = None => Count(q.calls, "refining") = 0
        /\ q.score # None => (Count(q.calls, "refining") = 1 <=> q.score[1] < 6)
        /\ (q.score # None /\ q.score[1] >= 6) => q.refined = None
        /\ q.prompt # None =>
              IF q.score[1] >= 6
              THEN DescriptionIn(q.prompt[1], PROMPTS[q.diagram_type]) = Strip(q.description)
              ELSE /\ q.refined # None
                   /\ DescriptionIn(q.prompt[1], PROMPTS[q.diagram_type]) = q.refined[1]

C6_Witness ==
    \E r \in DOMAIN req :
        /\ req[r].pc = "generating"
        /\ req[r].score[1] < 6
        /\ req[r].refined # None
        /\ req[r].refined[1] # req[r].user_input[1]
        /\ req[r].refined[1] # <<>>
        /\ req[r].calls = <<"scoring", "refining", "generating">>

StageRank(stage) ==
    CASE stage = "start" -> 0
      [] stage = "scoring" -> 1
      [] stage = "refining" -> 2
      [] stage = "generating" -> 3
      [] stage \in {"done", "error"} -> 4

IsPrefix(a, b) == Len(a) <= Len(b) /\ SubSeq(b, 1, Len(a)) = a

\* the calls of a request: scoring first, stages in order, none twice, at
\* most one unanswered
OrderedCalls(q) ==
    /\ Len(q.calls) <= 3
    /\ Len(q.pending) <= 1
    /\ \A i \in DOMAIN q.calls : q.calls[i] \in {"scoring", "refining", "generating"}
    /\ \A i, j \in DOMAIN q.calls : i < j => StageRank(q.calls[i]) < StageRank(q.calls[j])
    /\ q.calls # <<>> => q.calls[1] = "scoring"
    /\ q.pending # <<>> => q.pending = <<q.calls[Len(q.calls)]>> /\ q.pc = q.pending[1]

\* a step of a request moves it to a later stage and issues at most one call
ForwardStep(r) ==
    req'[r] # req[r] =>
        /\ StageRank(req'[r].pc) > StageRank(req[r].pc)
        /\ IsPrefix(req[r].calls, req'[r].calls)
        /\ Len(req'[r].calls) <= Len(req[r].calls) + 1
        /\ req[r].pending # <<>> => req[r].pending[1] \notin Range(req'[r].pending)

\* C7: the calls of a request are made in the order scoring, refinement,
\* generation, one at a time and each stage at most once, three at most; a
\* request never goes back to an earlier stage; and every request ends in
\* done or in an error.
C7_LinearPipelineTerminates ==
    /\ [](\A r \in RequestIds : OrderedCalls(req[r]))
    /\ [][\A r \in RequestIds : ForwardStep(r)]_vars
    /\ <>(\A r \in RequestIds : Ended(req[r]))

C7_Witness ==
    \E r \in DOMAIN req :
        req[r].pc = "done" /\ req[r].calls = <<"scoring", "refining", "generating">>

\* the generation call of q failed: transport, status, body, no choices, or
\* a content that is missing or empty once trimmed
GenerationFailed(q) ==
    /\ q.calls # <<>> /\ q.calls[Len(q.calls)] = "generating" /\ q.pending = <<>>
    /\ \/ q.response[1].kind # "ok"
       \/ \A i \in DOMAIN q.response[1].content : q.response[1].content[i] \in WhiteSpace

\* the scoring or the refinement call was the last one answered and it failed
OptionalCallFailed(q) ==
    /\ q.response # None /\ q.response[1].kind # "ok"
    /\ \/ q.calls[Len(q.calls)] \in {"scoring", "refining"}
       \/ q.pending # <<>>

\* no prompt can be built for the diagram type, whatever the description
TemplateUnusable(dt) ==
    dt \notin DOMAIN PROMPTS \/ \A d \in Descriptions : Format(PROMPTS[dt], d).err # ""

\* C8: a failed generation call ends the request in a ConnectionError after
\* exactly one generation call and without the extractor or the sanitizer
\* having run; a failed scoring or refinement call never ends the request:
\* a request that has ended right after one has ended in another error, one
\* that the diagram type alone decides.
C8_GenerationFailureIsConnectionError ==
    \A r \in DOMAIN req :
        LET q == req[r] IN
        /\ GenerationFailed(q) =>
              /\ q.pc = "error"
              /\ q.error[1].type = "ConnectionError"
              /\ Count(q.calls, "generating") = 1
              /\ q.ran = <<>>
              /\ q.result = None
        /\ (OptionalCallFailed(q) /\ Ended(q)) =>
              /\ q.pc = "error" /\ q.error[1].type # "ConnectionError"
              /\ TemplateUnusable(q.diagram_type)

C8_Witness ==
    \E r \in DOMAIN req :
        /\ GenerationFailed(req[r])
        /\ req[r].response[1].kind = "ok"
        /\ req[r].response[1].content # <<>>
        /\ req[r].error[1].type = "ConnectionError"

\* ------------------------------------------------------------------------
\* The helpers on their own: the arguments are drawn from bounded sets and
\* one step applies the helper.
\* ------------------------------------------------------------------------
TextsUpTo(alphabet, n) == UNION {[1..k -> alphabet] : k \in 0..n}

RECURSIVE Flatten(_)
Flatten(chunks) ==
    IF chunks = <<>> THEN <<>> ELSE Head(chunks) \o Flatten(Tail(chunks))

InitHelper(name, args) ==
    req = <<>> /\ fn = name /\ arg \in args /\ ret = None

Returns(name, value) ==
    fn = name /\ ret = None /\ ret' = Some(value) /\ UNCHANGED <<req, fn, arg>>

Applied(name) == fn = name /\ ret # None

\* --- base_prompt.format(description=final_description) --------------------
MaxDescriptionLen == 2

FormatAlphabet == {"a", "{", "}"}

InitFormat ==
    InitHelper("format",
               {[diagram_type |-> dt, description |-> d] :
                    dt \in DOMAIN PROMPTS, d \in TextsUpTo(FormatAlphabet, MaxDescriptionLen)})

ApplyFormat == Returns("format", Format(PROMPTS[arg.diagram_type], arg.description))

SpecFormat == InitFormat /\ [][ApplyFormat]_vars

\* C3: for each of the 16 diagram types and every description the prompt is
\* built without error and holds the description verbatim and the
\* leading-keyword instruction of the dialect.
C3_EveryTemplateFormats ==
    Applied("format") =>
        /\ ret[1].err = ""
        /\ Contains(ret[1].val, arg.description)
        /\ Contains(ret[1].val, <<PROMPTS[arg.diagram_type][1]>>)

\* --- score_prompt ---------------------------------------------------------
MaxScoreReplyLen == 3

ScoreAlphabet == {"0", "1", "7", " ", "x"}

InitScore ==
    InitHelper("score_prompt",
               Failures \cup {Reply(t) : t \in TextsUpTo(ScoreAlphabet, MaxScoreReplyLen)})

ApplyScore == Returns("score_prompt", score_prompt(arg))

SpecScore == InitScore /\ [][ApplyScore]_vars

HasDigit(s) == \E k \in DOMAIN s : s[k] \in Digits

RECURSIVE Pow10(_)
Pow10(n) == IF n = 0 THEN 1 ELSE 10 * Pow10(n - 1)

RECURSIVE PlaceValueSum(_, _, _)
PlaceValueSum(s, i, j) ==
    IF i > j THEN 0 ELSE DigitVal(s[i]) * Pow10(j - i) + PlaceValueSum(s, i + 1, j)

\* the number written by the first run of digits of s
FirstIntegerToken(s) ==
    LET i == CHOOSE k \in DOMAIN s : s[k] \in Digits /\ \A m \in 1..(k - 1) : s[m] \notin Digits
        j == CHOOSE k \in i..Len(s) :
                 /\ \A m \in i..k : s[m] \in Digits
                 /\ k = Len(s) \/ s[k + 1] \notin Digits
    IN  PlaceValueSum(s, i, j)

Clamped(v) == IF v < 0 THEN 0 ELSE IF v > 10 THEN 10 ELSE v

\* C4: whatever the outcome of the scoring call, score_prompt returns an
\* integer in 0..10: the first integer token of the reply clamped to 0..10
\* when the reply holds one, and 3 when it holds none or the call failed.
C4_ScoreIsTotalAndClamped ==
    Applied("score_prompt") =>
        /\ ret[1] \in 0..10
        /\ ret[1] = IF arg.kind = "ok" /\ HasDigit(arg.content)
                    THEN Clamped(FirstIntegerToken(arg.content))
                    ELSE 3

C4_Witness ==
    /\ Applied("score_prompt")
    /\ arg.kind = "ok" /\ HasDigit(arg.content)
    /\ arg.content[1] \notin Digits
    /\ FirstIntegerToken(arg.content) > 10
    /\ ret[1] = 10

\* --- refine_prompt --------------------------------------------------------
MaxRefineReplyLen == 3

RefineAlphabet == {QUOTE, " ", "a"}

RefineInputs == { <<"u">>, <<"w", " ", "c">> }

InitRefine ==
    InitHelper("refine_prompt",
               {[outcome |-> o, user_input |-> u] :
                    o \in Failures \cup
                          {Reply(t) : t \in TextsUpTo(RefineAlphabet, MaxRefineReplyLen)},
                    u \in RefineInputs})

ApplyRefine == Returns("refine_prompt", refine_prompt(arg.outcome, arg.user_input))

SpecRefine == InitRefine /\ [][ApplyRefine]_vars

\* the refinement call failed, or its content is empty once the whitespace
\* and the quotes are trimmed
RefinementFailed(o) ==
    o.kind # "ok" \/ \A k \in DOMAIN o.content : o.content[k] \in WhiteSpace \cup {QUOTE}

\* C5: refine_prompt returns a non-empty string for a non-empty description,
\* and exactly the description whenever the refinement failed or its content
\* is empty after trimming.
C5_RefineNeverEmpty ==
    Applied("refine_prompt") =>
        /\ ret[1] # <<>>
        /\ RefinementFailed(arg.outcome) => ret[1] = arg.user_input

\* --- extract_mermaid_code -------------------------------------------------
MaxChunks == 6

ExtractChunks == { Fence, Mermaid, <<NL>>, <<" ">>, <<"p", "i", "e">>, <<"x">> }

InitExtract ==
    InitHelper("extract_mermaid_code",
               {Flatten(c) : c \in TextsUpTo(ExtractChunks, MaxChunks)})

ApplyExtract == Returns("extract_mermaid_code", extract_mermaid_code(arg))

SpecExtract == InitExtract /\ [][ApplyExtract]_vars

\* an opening marker at index i of s: ``` then a hint that Hint accepts, then
\* the newline; its length, 0 if there is none
OpeningLen(s, i, Hint(_)) ==
    IF /\ OccursAt(s, Fence, i)
       /\ \E e \in (i + 3)..Len(s) :
              /\ s[e] = NL
              /\ \A m \in (i + 3)..(e - 1) : s[m] # NL
              /\ Hint(SubSeq(s, i + 3, e - 1))
    THEN (CHOOSE e \in (i + 3)..Len(s) :
              s[e] = NL /\ \A m \in (i + 3)..(e - 1) : s[m] # NL) - i + 1
    ELSE 0

ClosingsFrom(s, from) == {j \in from..Len(s) : OccursAt(s, Fence, j)}

\* where the fenced blocks of s open
Blocks(s, Hint(_)) ==
    {i \in 1..Len(s) :
        OpeningLen(s, i, Hint) > 0 /\ ClosingsFrom(s, i + OpeningLen(s, i, Hint)) # {}}

Least(S) == CHOOSE x \in S : \A y \in S : x <= y

\* the text between the opening marker of the first block and the first
\* closing marker after it
FirstInterior(s, Hint(_)) ==
    LET i == Least(Blocks(s, Hint))
        from == i + OpeningLen(s, i, Hint)
    IN  SubSeq(s, from, Least(ClosingsFrom(s, from)) - 1)

\* any language hint: a run without whitespace and backticks
AnyHint(h) == \A k \in DOMAIN h : h[k] \notin WhiteSpace \cup {BT}

\* no hint, or the hint "mermaid"
MermaidHint(h) == h = <<>> \/ h = Mermaid

\* C9 as stated: a fenced block with any language hint, or none, after the
\* opening marker is returned, trimmed, before the keyword rule is tried.
C9_AnyFencedBlockWins ==
    (Applied("extract_mermaid_code") /\ Blocks(arg, AnyHint) # {}) =>
        ret[1] = [err |-> "", val |-> Strip(FirstInterior(arg, AnyHint))]

\* C9: when the text holds an opening marker, ``` followed at once by a
\* newline or by "mermaid" and a newline, with a closing ``` after it, the
\* result is the trimmed text between the first such opening marker and the
\* first ``` after it, whether or not a keyword line stands outside.
C9_MermaidFencedBlockWins ==
    (Applied("extract_mermaid_code") /\ Blocks(arg, MermaidHint) # {}) =>
        ret[1] = [err |-> "", val |-> Strip(FirstInterior(arg, MermaidHint))]

\* a keyword line, then a fenced block whose interior is another text
C9_Witness ==
    /\ Applied("extract_mermaid_code")
    /\ StartsWith(arg, <<"p", "i", "e", NL>>)
    /\ Blocks(arg, MermaidHint) = {5}
    /\ ret[1] = [err |-> "", val |-> <<"x">>]

\* where the lines of s start
LineStarts(s) == {k \in 1..(Len(s) + 1) : k = 1 \/ s[k - 1] = NL}

LineFrom(s, k) ==
    LET ends == {e \in k..Len(s) : s[e] = NL}
    IN  SubSeq(s, k, (IF ends = {} THEN Len(s) + 1 ELSE Least(ends)) - 1)

\* where the lines start whose trimmed content begins with a keyword
KeywordLines(s) ==
    {k \in LineStarts(s) : StartsWithAny(LStripSet(LineFrom(s, k), WhiteSpace), valid_starts)}

\* C10: without a fenced block, the result is the trimmed text from the
\* first line whose trimmed content starts with a diagram keyword to the end
\* of the text, and it begins with a keyword.
C10_KeywordLineToEnd ==
    (/\ Applied("extract_mermaid_code")
     /\ Blocks(arg, MermaidHint) = {}
     /\ KeywordLines(arg) # {}) =>
        /\ ret[1].err = ""
        /\ ret[1].val = Strip(SubSeq(arg, Least(KeywordLines(arg)), Len(arg)))
        /\ StartsWithAny(ret[1].val, valid_starts)

C10_Witness ==
    /\ Applied("extract_mermaid_code")
    /\ Blocks(arg, MermaidHint) = {}
    /\ KeywordLines(arg) # {}
    /\ Least(KeywordLines(arg)) > 2
    /\ arg[1] = "x"
    /\ arg[Least(KeywordLines(arg))] = " "
    /\ ret[1].err = "" /\ Len(ret[1].val) > 3

\* ------------------------------------------------------------------------
\* Claims about the reply of the generation call
\* ------------------------------------------------------------------------
ExtractionMessage(excerpt) ==
    <<"AI returned invalid Mermaid code: ",
      "Could not find valid Mermaid diagram. Got: ">> \o Repr(excerpt)

\* C11: a reply that holds neither a fenced block nor a keyword line ends
\* the request in an error whose message carries the first 200 characters
\* of the reply (the whole reply when it is shorter); the sanitizer is not
\* run and no diagram text is returned.
C11_NoDiagramIsExtractionError ==
    \A r \in DOMAIN req :
        LET q == req[r] IN
        (/\ q.ai_response # None /\ q.ai_response[1] # <<>>
         /\ Blocks(q.ai_response[1], MermaidHint) = {}
         /\ KeywordLines(q.ai_response[1]) = {}) =>
            /\ q.pc = "error"
            /\ q.error[1].type = "ConnectionError"
            /\ \E n \in 0..EXCERPT_LEN :
                   /\ n = EXCERPT_LEN \/ n = Len(q.ai_response[1])
                   /\ n <= Len(q.ai_response[1])
                   /\ q.error[1].msg = ExtractionMessage(SubSeq(q.ai_response[1], 1, n))
            /\ q.ran = <<"extract">>
            /\ q.mermaid_code = None /\ q.result = None

\* a reply longer than the excerpt has been rejected
C11_Witness ==
    \E r \in DOMAIN req :
        /\ req[r].pc = "error" /\ req[r].ran = <<"extract">>
        /\ Len(req[r].ai_response[1]) > EXCERPT_LEN
        /\ Len(req[r].error[1].msg) < Len(req[r].ai_response[1])

\* ------------------------------------------------------------------------
\* sanitize_mermaid_code on its own, on Flowchart payloads
\* ------------------------------------------------------------------------
MaxFlowchartChunks == 6

FlowchartChunks ==
    { <<"{">>, <<"}">>, <<"?">>, <<"!">>, <<QUOTE>>, <<"A">>,
      <<"I", "s", " ", "v", "a", "l", "i", "d">> }

InitFlowchart ==
    InitHelper("sanitize_mermaid_code",
               {[code |-> Flatten(c), diagram_type |-> "Flowchart"] :
                    c \in TextsUpTo(FlowchartChunks, MaxFlowchartChunks)})

ApplySanitize ==
    Returns("sanitize_mermaid_code", sanitize_mermaid_code(arg.code, arg.diagram_type))

SpecFlowchart == InitFlowchart /\ [][ApplySanitize]_vars

\* a single-brace label {text} opens at index i of s: a brace that no brace
\* precedes, a text without braces, a closing brace that no brace follows
SingleLabelAt(s, i) ==
    LET n == RunLenNot(s, i + 1, {"{", "}"}) IN
    /\ s[i] = "{" /\ (i = 1 \/ s[i - 1] # "{")
    /\ n >= 1
    /\ i + n + 1 <= Len(s) /\ s[i + n + 1] = "}"
    /\ (i + n + 2 > Len(s) \/ s[i + n + 2] # "}")

SingleLabels(s) == {i \in 1..Len(s) : SingleLabelAt(s, i)}

\* a double-brace label {{text}} opens at index i of s
DoubleLabelAt(s, i) ==
    /\ OccursAt(s, <<"{", "{">>, i)
    /\ OccursAt(s, <<"}", "}">>, i + 2 + RunLenNot(s, i + 2, {"}"}))

LabelAt(s, i) == SubSeq(s, i + 2, i + 1 + RunLenNot(s, i + 2, {"}"}))

DoubleLabels(s) == {i \in 1..Len(s) : DoubleLabelAt(s, i)}

TripleBrace(s) ==
    Contains(s, <<"{", "{", "{">>) \/ Contains(s, <<"}", "}", "}">>)

\* C12: in a Flowchart payload every single-brace label is rewritten to the
\* double-brace form: no single-brace label is left, each one has gained
\* exactly one opening and one closing brace, and no run of three braces
\* appears that the payload did not hold already.
C12_SingleBracesDoubled ==
    (Applied("sanitize_mermaid_code") /\ arg.diagram_type = "Flowchart") =>
        /\ SingleLabels(ret[1]) = {}
        /\ Count(ret[1], "{") = Count(arg.code, "{") + Cardinality(SingleLabels(arg.code))
        /\ Count(ret[1], "}") = Count(arg.code, "}") + Cardinality(SingleLabels(arg.code))
        /\ TripleBrace(ret[1]) => TripleBrace(arg.code)

\* the same without the clause on runs of three braces
DoubledWithoutTripleClause ==
    (Applied("sanitize_mermaid_code") /\ arg.diagram_type = "Flowchart") =>
        /\ SingleLabels(ret[1]) = {}
        /\ Count(ret[1], "{") = Count(arg.code, "{") + Cardinality(SingleLabels(arg.code))
        /\ Count(ret[1], "}") = Count(arg.code, "}") + Cardinality(SingleLabels(arg.code))

\* C13: in the output for a Flowchart payload no double-brace label holds a
\* quotation mark and none ends with '?' or '!'.
C13_LabelsWithoutQuotesAndPunctuation ==
    (Applied("sanitize_mermaid_code") /\ arg.diagram_type = "Flowchart") =>
        \A i \in DoubleLabels(ret[1]) :
            LET label == LabelAt(ret[1], i) IN
            /\ \A k \in DOMAIN label : label[k] # QUOTE
            /\ label # <<>> => label[Len(label)] \notin {"?", "!"}

\* ------------------------------------------------------------------------
\* sanitize_mermaid_code on its own, on Gantt payloads
\* ------------------------------------------------------------------------
MaxGanttLines == 3

GanttLines ==
    { <<"T", "a", "s", "k", " ", "A", " ", ":", "2", "0", "2", "5", "-", "1", "0", "-", "0", "1", ",", " ", "5", "d">>,
      <<"B", " ", ":", "a", "1", ",", " ", "3", "d">>,
      <<"s", "e", "c", "t", "i", "o", "n", " ", "P">>,
      <<"a", "x", "i", "s", "F", "o", "r", "m", "a", "t", " ", "%", "H", ":", "%", "M">>,
      <<"C", " ", ":", " ", "a", "f", "t", "e", "r", " ", "a", "1", ",", " ", "2", "d">>,
      <<"g", "a", "n", "t", "t">> }

InitGantt ==
    InitHelper("sanitize_mermaid_code",
               {[code |-> Join(ls, NL), diagram_type |-> "Gantt"] :
                    ls \in TextsUpTo(GanttLines, MaxGanttLines) \ {<<>>}})

SpecGantt == InitGantt /\ [][ApplySanitize]_vars

SectionHeader(line) == StartsWith(Lower(Strip(line)), <<"s", "e", "c", "t", "i", "o", "n">>)

\* the line holds a colon, is no section header and carries no identifier
LacksTaskId(line) ==
    /\ \E c \in DOMAIN line : line[c] = ":"
    /\ ~SectionHeader(line)
    /\ ~HasTaskId(line)

\* line with the identifier task<k> put right after one of its colons
WithTaskId(line, k) ==
    {SubSeq(line, 1, c) \o <<"t", "a", "s", "k">> \o IntToStr(k) \o <<",", " ">>
        \o LStripSet(SubSeq(line, c + 1, Len(line)), WhiteSpace) :
            c \in {x \in DOMAIN line : line[x] = ":"}}

\* C14: in a Gantt payload the k-th line that holds a colon, is no section
\* header and carries no identifier gains the identifier task<k> right
\* after its colon, and every other line is left as it was.
C14_SequentialTaskIds ==
    (Applied("sanitize_mermaid_code") /\ arg.diagram_type = "Gantt") =>
        LET in == Split(arg.code, NL)
            out == Split(ret[1], NL)
            rank(i) == Cardinality({j \in 1..i : LacksTaskId(in[j])})
        IN  /\ Len(out) = Len(in)
            /\ \A i \in DOMAIN in :
                   IF LacksTaskId(in[i])
                   THEN out[i] \in WithTaskId(in[i], rank(i))
                   ELSE out[i] = in[i]

\* ------------------------------------------------------------------------
\* Two requests in flight at once: the event loop runs one request from an
\* await to its next await, then any request whose call has ended
\* ------------------------------------------------------------------------
ConcurrentIds == {1, 2}

ConcurrentTypes == {"Gantt", "Flowchart"}

ConcurrentScoreOutcomes == {Reply(<<"7">>), Reply(<<"5">>)}

ConcurrentRefineOutcomes ==
    {Reply(<<"s", "t", "a", "g", "e", "s">>), Failed("network_error")}

ConcurrentGenerateOutcomes ==
    { Reply(<<"g", "a", "n", "t", "t", "\n", "A", " ", ":", "2", "0", "2", "5", "-", "1", "0", "-", "0", "1", ",", " ", "5", "d", "\n", "B", " ", ":", " ", "a", "f", "t", "e", "r", " ", "a", "1", ",", " ", "2", "d">>),
      Reply(<<"f", "l", "o", "w", "c", "h", "a", "r", "t", " ", "T", "D", "\n", "A", "{", "o", "k", "?", "}", " ", "-", "-", ">", " ", "B">>),
      Failed("http_status") }

InitConcurrent ==
    /\ req \in [ConcurrentIds -> {NewRequest("k1", dt, <<"p", "l", "a", "n">>) :
                                     dt \in ConcurrentTypes}]
    /\ fn = "none" /\ arg = <<>> /\ ret = <<>>

ConcurrentStarting == \E r \in DOMAIN req : Start(r)
ConcurrentScoring == \E r \in DOMAIN req, o \in ConcurrentScoreOutcomes : ScoreResponse(r, o)
ConcurrentRefining == \E r \in DOMAIN req, o \in ConcurrentRefineOutcomes : RefineResponse(r, o)
ConcurrentGenerating ==
    \E r \in DOMAIN req, o \in ConcurrentGenerateOutcomes : GenerateResponse(r, o)

NextConcurrent ==
    ConcurrentStarting \/ ConcurrentScoring \/ ConcurrentRefining \/ ConcurrentGenerating

SpecConcurrent == InitConcurrent /\ [][NextConcurrent]_vars

\* the two requests were given the same arguments and the same replies
SameRun(a, b) ==
    /\ a.api_key = b.api_key /\ a.diagram_type = b.diagram_type
    /\ a.description = b.description
    /\ a.calls = b.calls /\ a.pending = b.pending
    /\ a.score = b.score /\ a.refined = b.refined /\ a.response = b.response

\* C15: whatever the interleaving, a request's state (its result and its
\* error included) is decided by its own arguments and the replies to its
\* own calls, so it is what the request produces when run alone, and a step
\* of one request leaves every other request as it was.
C15_RequestsAreIndependent ==
    /\ [](\A a, b \in DOMAIN req : SameRun(req[a], req[b]) => req[a] = req[b])
    /\ [][\E r \in DOMAIN req : \A x \in DOMAIN req \ {r} : req'[x] = req[x]]_vars

\* two Gantt requests have both ended with the identifiers task1 and task2
C15_Witness ==
    /\ \A r \in DOMAIN req : req[r].pc = "done" /\ req[r].diagram_type = "Gantt"
    /\ Cardinality(DOMAIN req) = 2
    /\ \A r \in DOMAIN req :
           /\ Contains(req[r].result[1], <<":", "t", "a", "s", "k", "1", ",">>)
           /\ Contains(req[r].result[1], <<":", "t", "a", "s", "k", "2", ",">>)
           /\ ~Contains(req[r].result[1], <<":", "t", "a", "s", "k", "3", ",">>)

\* ------------------------------------------------------------------------
\* sanitize_mermaid_code on its own, on payloads with explanatory lines
\* ------------------------------------------------------------------------
MaxProseChunks == 5

ProseChunks ==
    { <<"{">>, <<"}">>, <<"!">>, <<NL>>, <<"a">>,
      <<"N", "o", "t", "e", ":", " ", "x">>, <<" ", "T", "H", "E", " ", "a", "b", "o", "v", "e">> }

ProseTypes == {"Flowchart", "Gantt", "Pie Chart"}

InitProse ==
    InitHelper("sanitize_mermaid_code",
               {[code |-> Flatten(c), diagram_type |-> dt] :
                    c \in TextsUpTo(ProseChunks, MaxProseChunks), dt \in ProseTypes})

SpecProse == InitProse /\ [][ApplySanitize]_vars

\* the trimmed, lower-cased line begins with an explanatory marker
Prose(line) == StartsWithAny(Lower(Strip(line)), ProseMarkers)

ProseLines(ls) == {k \in DOMAIN ls : Prose(ls[k])}

\* the lines before the first explanatory line, all of them without one
Before(ls) ==
    SubSeq(ls, 1, IF ProseLines(ls) = {} THEN Len(ls) ELSE Least(ProseLines(ls)) - 1)

\* the payload after the removal of the fence markers and the repairs of its
\* dialect
Repaired(code, diagram_type) ==
    LET c0 == Strip(SubFences(code))
    IN  IF diagram_type = "Flowchart" THEN SanitizeFlowchart(c0)
        ELSE IF diagram_type = "Gantt" THEN SanitizeGantt(c0)
        ELSE c0

\* C16 as stated: the output holds no explanatory line, and its lines are
\* those of the payload (fence markers aside) before the payload's first
\* explanatory line: as many lines as that part has once trimmed.
C16_ProseTailOfPayloadDropped ==
    Applied("sanitize_mermaid_code") =>
        /\ \A k \in DOMAIN Split(ret[1], NL) : ~Prose(Split(ret[1], NL)[k])
        /\ Len(Split(ret[1], NL)) =
               Len(Split(Strip(Join(Before(Split(Strip(SubFences(arg.code)), NL)), NL)), NL))

\* C16: the output holds no explanatory line; it is the trimmed text of the
\* lines before the first explanatory line, where the lines tested are
\* those of the payload after the removal of the fence markers and the
\* repairs of its dialect.
C16_ProseTailOfRepairedDropped ==
    Applied("sanitize_mermaid_code") =>
        /\ \A k \in DOMAIN Split(ret[1], NL) : ~Prose(Split(ret[1], NL)[k])
        /\ ret[1] = Strip(Join(Before(Split(Repaired(arg.code, arg.diagram_type), NL)), NL))

\* a payload of three lines whose second line is explanatory
C16_Witness ==
    /\ Applied("sanitize_mermaid_code")
    /\ Len(Split(arg.code, NL)) = 3
    /\ ProseLines(Split(arg.code, NL)) = {2}
    /\ Split(arg.code, NL)[3] = <<"a">>
    /\ ret[1] = <<"a">>

\* ------------------------------------------------------------------------
\* sanitize_mermaid_code on its own, on payloads with backticks
\* ------------------------------------------------------------------------
MaxFenceChunks == 5

FenceChunks ==
    { <<BT>>, <<BT, BT>>, Fence, Mermaid, <<"?">>, <<"{">>, <<"}">>, <<NL>> }

InitFence ==
    InitHelper("sanitize_mermaid_code",
               {[code |-> Flatten(c), diagram_type |-> dt] :
                    c \in TextsUpTo(FenceChunks, MaxFenceChunks), dt \in ProseTypes})

SpecFence == InitFence /\ [][ApplySanitize]_vars

\* C17: whatever the payload and the diagram type, the output holds no
\* triple-backtick fence marker.
C17_NoFenceInOutput ==
    Applied("sanitize_mermaid_code") => ~Contains(ret[1], Fence)

\* the same for the diagram types without the Flowchart repairs
NoFenceUnlessFlowchart ==
    (Applied("sanitize_mermaid_code") /\ arg.diagram_type # "Flowchart") =>
        ~Contains(ret[1], Fence)

\* ------------------------------------------------------------------------
\* sanitize_mermaid_code on its own, on every kind of diagram type
\* ------------------------------------------------------------------------
MaxFrameChunks == 4

FrameChunks ==
    { <<"{">>, <<"}">>, <<"?">>, <<QUOTE>>, <<NL>>, Fence,
      <<"A", " ", ":", "5">>, <<"N", "o", "t", "e", ":", " ", "x">> }

FrameTypes == {"Flowchart", "Gantt", "ER Diagram", "Class Diagram", "Venn Diagram"}

InitFrame ==
    InitHelper("sanitize_mermaid_code",
               {[code |-> Flatten(c), diagram_type |-> dt] :
                    c \in TextsUpTo(FrameChunks, MaxFrameChunks), dt \in FrameTypes})

SpecFrame == InitFrame /\ [][ApplySanitize]_vars

\* the characters that the Flowchart repairs add or remove
LabelChars == {"{", "}", QUOTE, "?", "!"}

KeepOnly(s, cs) == SelectSeq(s, LAMBDA c : c \in cs)

Drop(s, cs) == SelectSeq(s, LAMBDA c : c \notin cs)

\* fence-marker removal, truncation at the first explanatory line and outer
\* trimming, nothing else
Generic(code) == Strip(Join(Before(Split(Strip(SubFences(code)), NL)), NL))

\* C18: for a diagram type other than Flowchart and Gantt the output is the
\* payload with its fence markers removed, cut before its first explanatory
\* line and trimmed (the payload itself, trimmed, when it has neither); the
\* Flowchart repairs change nothing but braces, quotation marks, '?' and
\* '!', so they insert no task identifier; the Gantt repair leaves the
\* braces, quotation marks, '?' and '!' what the other types leave.
C18_RepairsStayInTheirDialect ==
    Applied("sanitize_mermaid_code") =>
        /\ arg.diagram_type \notin {"Flowchart", "Gantt"} =>
              /\ ret[1] = Generic(arg.code)
              /\ (~Contains(arg.code, Fence) /\ ProseLines(Split(arg.code, NL)) = {}) =>
                     ret[1] = Strip(arg.code)
        /\ arg.diagram_type = "Flowchart" =>
              /\ IsPrefix(Drop(ret[1], LabelChars),
                          Drop(Strip(SubFences(arg.code)), LabelChars))
              /\ ~Contains(ret[1], <<"t", "a", "s", "k">>)
        /\ arg.diagram_type = "Gantt" =>
              KeepOnly(ret[1], LabelChars) = KeepOnly(Generic(arg.code), LabelChars)

\* an ER payload with a single-brace block, a quotation mark, a '?' and a
\* colon-bearing line comes back as it was
C18_Witness ==
    /\ Applied("sanitize_mermaid_code")
    /\ arg.diagram_type = "ER Diagram"
    /\ SingleLabels(arg.code) # {}
    /\ Contains(arg.code, <<"?">>) /\ Contains(arg.code, <<":", "5">>)
    /\ ret[1] = arg.code

=============================================================================
